---------------------------- MODULE Spec2Model ----------------------------
(***************************************************************************)
(* WebBoard: the calendar data pipeline (Code.js) and the spreadsheet      *)
(* data access with its script cache (DataAccess.js).                      *)
(*                                                                         *)
(* JavaScript values are tagged records.  A string is a sequence of atoms: *)
(* an atom is an indivisible run of characters, the atom " " is one        *)
(* whitespace character, and no other atom starts or ends with whitespace  *)
(* (the title separator " - " is only ever produced, never trimmed).       *)
(* Instants are whole hours counted from 2024-02-29T00:00Z, so day 1 is    *)
(* 2024-03-01; minutes are not represented.                                *)
(*                                                                         *)
(* The Hebrew literals of the source are written transliterated:           *)
(*   "mevutal"   = U+05DE U+05D1 U+05D5 U+05D8 U+05DC   (cancelled)        *)
(*   "optzionali"= the literal for optional                                *)
(*   "tentativi" = the literal for tentative                               *)
(*   "nidcha"    = the literal for postponed                               *)
(*   "erua luach shana" = the calendar-event task type                     *)
(*   "lo yadua", "lo hugdar", "lelo proyekt", "lo shuyach" = the defaults  *)
(***************************************************************************)
EXTENDS Integers, Sequences, FiniteSets, TLC

VARIABLES
    tz,         \* script time zone, hours east of UTC (Date getters, new Date(y,m,d))
    tasks,      \* pipeline input: the raw task objects
    supporting, \* pipeline input: the supportingData bundle of six maps
    pipeOut,    \* pipeline result: [done, threw, events]
    now,        \* wall clock, seconds
    store,      \* the spreadsheet: sheet name -> 2D values (absent name = no sheet)
    reachable,  \* whether SpreadsheetApp.openById succeeds
    cache,      \* CacheService script cache: key -> entry (absent key = no entry)
    proc,       \* getAllDataWithCache invocations under way: process -> local state
    call,       \* the getAllDataWithCache call that returned last, at this instant
    req,        \* the last getCalendarEvents request: its outcome and what it touched
    prev        \* the getCalendarEvents request before that, where it is kept

vars == <<tz, tasks, supporting, pipeOut, now, store, reachable, cache, proc, call, req, prev>>

---------------------------------------------------------------------------
(* JavaScript values *)

Undefined == [k |-> "undefined"]
Str(s)    == [k |-> "string", s |-> s]
Num(n)    == [k |-> "number", n |-> n]
DateV(t)  == [k |-> "date", t |-> t]
EmptyStr  == Str(<<>>)
Word(a)   == Str(<<a>>)

IsString(v) == v.k = "string"

\* ToBoolean: "" , 0 and undefined are falsy; every Date object is truthy.
Truthy(v) ==
    CASE v.k = "string"    -> v.s # <<>>
      [] v.k = "number"    -> v.n # 0
      [] v.k = "date"      -> TRUE
      [] v.k = "undefined" -> FALSE

\* a || b
OrElse(a, b) == IF Truthy(a) THEN a ELSE b

\* obj[field] of a row object: a missing property reads as undefined.
Get(obj, f) == IF f \in DOMAIN obj THEN obj[f] ELSE Undefined

WS == " "

RECURSIVE TrimLeft(_)
TrimLeft(s) == IF s # <<>> /\ Head(s) = WS THEN TrimLeft(Tail(s)) ELSE s

RECURSIVE TrimRight(_)
TrimRight(s) ==
    IF s # <<>> /\ s[Len(s)] = WS THEN TrimRight(SubSeq(s, 1, Len(s) - 1)) ELSE s

\* String.prototype.trim
trim(s) == TrimRight(TrimLeft(s))

\* The atoms that hold an upper-case letter, with their lower-case form.
LowerTable ==
    [a \in {"Cancelled", "CANCELLED", "Canceled", "Tentative", "Blue", "RED",
            "Setup", "User", "Stage-Design.co.il", "Expo", "Hall A",
            "Erua Luach Shana"} |->
        CASE a = "Cancelled" -> "cancelled"
          [] a = "CANCELLED" -> "cancelled"
          [] a = "Canceled"  -> "canceled"
          [] a = "Tentative" -> "tentative"
          [] a = "Blue"      -> "blue"
          [] a = "RED"       -> "red"
          [] a = "Setup"     -> "setup"
          [] a = "User"      -> "user"
          [] a = "Stage-Design.co.il" -> "stage-design.co.il"
          [] a = "Expo"      -> "expo"
          [] a = "Hall A"    -> "hall a"
          [] a = "Erua Luach Shana" -> "erua luach shana"]

LowerAtom(a) == IF a \in DOMAIN LowerTable THEN LowerTable[a] ELSE a

\* String.prototype.toLowerCase
toLowerCase(s) == [i \in 1..Len(s) |-> LowerAtom(s[i])]

\* String.prototype.endsWith
endsWith(s, suffix) ==
    /\ Len(suffix) <= Len(s)
    /\ SubSeq(s, Len(s) - Len(suffix) + 1, Len(s)) = suffix

---------------------------------------------------------------------------
(* Dates *)

DayNames ==
    [d \in 0..4 |->
        CASE d = 0 -> "2024-02-29"
          [] d = 1 -> "2024-03-01"
          [] d = 2 -> "2024-03-02"
          [] d = 3 -> "2024-03-03"
          [] d = 4 -> "2024-03-04"]

\* The instants whose ISO form the model can write and read back.
Instants == 0 .. (5 * 24 - 1)

Pad2(h) == IF h < 10 THEN "0" \o ToString(h) ELSE ToString(h)

\* "YYYY-MM-DD"
IsoDate(d) == IF d \in DOMAIN DayNames THEN DayNames[d] ELSE "day" \o ToString(d)

\* Date.prototype.toISOString: UTC, "YYYY-MM-DDTHH:mm:ss.sssZ"
IsoDateTime(t) ==
    IsoDate(t \div 24) \o "T" \o Pad2(t % 24) \o ":00:00.000Z"

\* Date.prototype.toString: local time, "Fri Mar 01 2024 00:00:00 GMT+0200"
LocalDateString(t, zone) ==
    "Date " \o IsoDate((t + zone) \div 24) \o " "
            \o Pad2((t + zone) % 24) \o ":00:00 GMT+" \o Pad2(zone) \o "00"

\* Number.prototype.toString
NumberString(n) == ToString(n)

\* String(v), v.toString(), and the coercion of a property key or of a
\* template-literal / Array.join element.
ToStr(v, zone) ==
    CASE v.k = "string"    -> v.s
      [] v.k = "number"    -> <<NumberString(v.n)>>
      [] v.k = "date"      -> <<LocalDateString(v.t, zone)>>
      [] v.k = "undefined" -> <<"undefined">>

\* The strings Date.parse reads, with the instant each denotes: the ISO
\* date-time form, and the date-only form (UTC midnight).
DateTimeStrings == {IsoDateTime(t) : t \in Instants}
DateOnlyStrings == {IsoDate(d) : d \in DOMAIN DayNames}
ParseTable ==
    [a \in DateTimeStrings \cup DateOnlyStrings |->
        IF a \in DateTimeStrings
        THEN CHOOSE t \in Instants : IsoDateTime(t) = a
        ELSE 24 * (CHOOSE d \in DOMAIN DayNames : IsoDate(d) = a)]

\* Date.parse of a string is NaN for anything else.
ParsesAsDate(s) == Len(s) = 1 /\ s[1] \in DOMAIN ParseTable

ParseDate(s) == ParseTable[s[1]]

\* Hours from the model's origin back to 1970-01-01T00:00Z.
EpochInstant == 0 - (19782 * 24)
MsPerHour == 3600 * 1000

\* isNaN(new Date(v).getTime())
IsInvalidDate(v) ==
    CASE v.k = "string"    -> ~ParsesAsDate(v.s)
      [] v.k = "number"    -> FALSE
      [] v.k = "date"      -> FALSE
      [] v.k = "undefined" -> TRUE

\* new Date(v).getTime(), for a v that is not an invalid date
TimeOf(v) ==
    CASE v.k = "string" -> ParseDate(v.s)
      [] v.k = "number" -> EpochInstant + (v.n \div MsPerHour)
      [] v.k = "date"   -> v.t

\* JSON.parse(JSON.stringify(v)) of a cell value: a Date is written by
\* Date.prototype.toJSON as its ISO string and read back as that string.
JsonValue(v) == IF v.k = "date" THEN Str(<<IsoDateTime(v.t)>>) ELSE v

\* JSON round trip of an object: undefined-valued properties are dropped.
JsonObject(obj) ==
    [f \in {g \in DOMAIN obj : obj[g].k # "undefined"} |-> JsonValue(obj[f])]

JsonMap(m) == [key \in DOMAIN m |-> JsonObject(m[key])]
JsonList(l) == [i \in 1..Len(l) |-> JsonObject(l[i])]

---------------------------------------------------------------------------
(* Code.js: validation *)

\* validateEvent without the comparison of the end date with the start date.
validateEvent_NoOrderCheck(task) ==
    LET dateIn  == Get(task, "dateIn")
        dateOut == Get(task, "dateOut")
        e1 == IF ~Truthy(dateIn) \/ IsInvalidDate(dateIn)
              THEN <<"dateIn missing or invalid">> ELSE <<>>
        e2 == IF e1 = <<>> /\ Truthy(dateOut) /\ IsInvalidDate(dateOut)
              THEN <<"dateOut invalid">> ELSE <<>>
        e3 == IF ~Truthy(Get(task, "Project"))
              THEN <<"no Project">> ELSE <<>>
    IN  e1 \o e2 \o e3

\* validateEvent: the list of errors, each named by its rule.
validateEvent(task) ==
    LET dateIn  == Get(task, "dateIn")
        dateOut == Get(task, "dateOut")
        e1 == IF ~Truthy(dateIn) \/ IsInvalidDate(dateIn)
              THEN <<"dateIn missing or invalid">> ELSE <<>>
        e2 == IF e1 = <<>> /\ Truthy(dateOut)
              THEN IF IsInvalidDate(dateOut)
                   THEN <<"dateOut invalid">>
                   ELSE IF TimeOf(dateOut) < TimeOf(dateIn)
                        THEN <<"dateOut before dateIn">> ELSE <<>>
              ELSE <<>>
        e3 == IF ~Truthy(Get(task, "Project"))
              THEN <<"no Project">> ELSE <<>>
    IN  e1 \o e2 \o e3

\* mapColorNameToHex
mapColorNameToHex(colorName, defaultHex) ==
    IF ~Truthy(colorName) \/ ~IsString(colorName)
    THEN defaultHex
    ELSE LET name == toLowerCase(trim(colorName.s))
         IN  CASE name = <<"red">>    -> Word("#FF0000")
               [] name = <<"blue">>   -> Word("#0000FF")
               [] name = <<"green">>  -> Word("#008000")
               [] name = <<"black">>  -> Word("#000000")
               [] name = <<"white">>  -> Word("#FFFFFF")
               [] name = <<"orange">> -> Word("#FFA500")
               [] name = <<"purple">> -> Word("#800080")
               [] name = <<"yellow">> -> Word("#FFFF00")
               [] name = <<"grey">>   -> Word("#808080")
               [] name = <<"gray">>   -> Word("#808080")
               [] OTHER               -> defaultHex

---------------------------------------------------------------------------
(* Code.js: enrichment *)

EmptyObject == [f \in {} |-> Undefined]

\* (ref && map[ref.toString().trim()]) ? map[ref.toString().trim()] : {}
Resolve(ref, map, zone) ==
    IF Truthy(ref) /\ trim(ToStr(ref, zone)) \in DOMAIN map
    THEN map[trim(ToStr(ref, zone))]
    ELSE EmptyObject

projectDataOf(task, sd, zone) == Resolve(Get(task, "Project"), sd.projects, zone)
projectStatusDataOf(task, sd, zone) ==
    Resolve(Get(projectDataOf(task, sd, zone), "ProjectStatus"), sd.projectStatuses, zone)
taskTypeDataOf(task, sd, zone)   == Resolve(Get(task, "TaskType"), sd.taskTypes, zone)
taskStatusDataOf(task, sd, zone) == Resolve(Get(task, "TaskStatus"), sd.taskStatuses, zone)
locationDataOf(task, sd, zone) ==
    Resolve(Get(projectDataOf(task, sd, zone), "Location"), sd.locations, zone)
taskManagerDataOf(task, sd, zone) == Resolve(Get(task, "TaskManager"), sd.employees, zone)
projectManagerDataOf(task, sd, zone) ==
    Resolve(Get(projectDataOf(task, sd, zone), "ProjectManager"), sd.employees, zone)

\* The operands of the three .trim() calls, before the call.
projectStatusRaw(task, sd, zone) ==
    OrElse(Get(projectStatusDataOf(task, sd, zone), "Status"), EmptyStr)
taskTypeNameRaw(task, sd, zone) ==
    OrElse(Get(taskTypeDataOf(task, sd, zone), "hebrew"),
           OrElse(Get(task, "Task"), EmptyStr))
taskStatusRaw(task, sd, zone) ==
    OrElse(Get(taskStatusDataOf(task, sd, zone), "hebrew"),
           OrElse(Get(taskStatusDataOf(task, sd, zone), "TaskStatus"), EmptyStr))

\* .trim() of a number or a Date is a TypeError.
EnrichThrows(task, sd, zone) ==
    \/ ~IsString(projectStatusRaw(task, sd, zone))
    \/ ~IsString(taskTypeNameRaw(task, sd, zone))
    \/ ~IsString(taskStatusRaw(task, sd, zone))

\* x.trim() without the toLowerCase()
Normalize_CaseSensitive(v) == Str(trim(v.s))

\* x.trim().toLowerCase()
Normalize(v) == Str(toLowerCase(trim(v.s)))

\* `${a || ''} ${b || ''}`.trim()
PersonName(person, zone) ==
    Str(trim(ToStr(OrElse(Get(person, "fName"), EmptyStr), zone) \o <<WS>>
             \o ToStr(OrElse(Get(person, "sName"), EmptyStr), zone)))

\* The body of validTasks.map: the task's own fields plus the enriched ones.
enrichTask(task, sd, zone) ==
    LET projectData  == projectDataOf(task, sd, zone)
        taskTypeData == taskTypeDataOf(task, sd, zone)
    IN  [projectName        |-> OrElse(Get(projectData, "name"), EmptyStr),
         projectFolder      |-> OrElse(Get(projectData, "folder"), EmptyStr),
         locationName       |-> OrElse(Get(locationDataOf(task, sd, zone), "name"), EmptyStr),
         taskManagerName    |-> PersonName(taskManagerDataOf(task, sd, zone), zone),
         projectManagerName |-> PersonName(projectManagerDataOf(task, sd, zone), zone),
         projectStatus      |-> Normalize(projectStatusRaw(task, sd, zone)),
         taskTypeName       |-> Normalize(taskTypeNameRaw(task, sd, zone)),
         taskStatusHebrew   |-> Normalize(taskStatusRaw(task, sd, zone)),
         backgroundColor    |-> Word("#f0f2f5"),
         textColor          |-> mapColorNameToHex(Get(taskTypeData, "color"), Word("#000000"))]
        @@ task

inactiveProjectStatuses ==
    {<<"mevutal">>, <<"optzionali">>, <<"tentativi">>, <<"nidcha">>,
     <<"canceled">>, <<"cancelled">>, <<"tentative">>}
inactiveTaskStatuses ==
    {<<"mevutal">>, <<"nidcha">>, <<"canceled">>, <<"cancelled">>}

\* The predicate of enriched.filter.
isActive(event) ==
    /\ event.projectStatus.s \notin inactiveProjectStatuses
    /\ event.taskStatusHebrew.s \notin inactiveTaskStatuses

isValidTask(task) == validateEvent(task) = <<>>

\* enrichEventsWithSupportingData.  A TypeError in the map aborts the call.
enrichEventsWithSupportingData(ts, sd, zone) ==
    LET validTasks == SelectSeq(ts, isValidTask)
    IN  IF \E i \in 1..Len(validTasks) : EnrichThrows(validTasks[i], sd, zone)
        THEN [threw |-> TRUE, events |-> <<>>]
        ELSE LET enriched == [i \in 1..Len(validTasks) |->
                                 enrichTask(validTasks[i], sd, zone)]
             IN  [threw |-> FALSE, events |-> SelectSeq(enriched, isActive)]

---------------------------------------------------------------------------
(* Code.js: transformation *)

Null == [k |-> "null"]

\* formatDateTimeForCalendar
formatDateTimeForCalendar(datePart, timePart, zone) ==
    IF ~Truthy(datePart) \/ IsInvalidDate(datePart)
    THEN Null
    ELSE LET day == (TimeOf(datePart) + zone) \div 24     \* getFullYear/Month/Date
         IN  IF Truthy(timePart) /\ ~IsInvalidDate(timePart)
             THEN LET hours == (TimeOf(timePart) + zone) % 24     \* getHours
                  IN  Word(IsoDateTime(day * 24 + hours - zone))
             ELSE Word(IsoDate((day * 24 - zone) \div 24))

CalendarEventType == <<"erua luach shana">>

RECURSIVE JoinParts(_, _)
\* Array.prototype.join(' - ') over elements already converted to strings
JoinParts(parts, sep) ==
    IF parts = <<>> THEN <<>>
    ELSE IF Len(parts) = 1 THEN parts[1]
    ELSE parts[1] \o <<sep>> \o JoinParts(Tail(parts), sep)

\* buildEventTitle without the branch for the calendar-event type
buildEventTitle_NoSpecialCase(event, zone) ==
    LET candidates == <<event.taskTypeName, event.projectName,
                        event.locationName, event.taskManagerName>>
        titleParts == SelectSeq(candidates, Truthy)
    IN  Str(JoinParts([i \in 1..Len(titleParts) |-> ToStr(titleParts[i], zone)], " - "))

\* buildEventTitle
buildEventTitle(event, zone) ==
    IF event.taskTypeName.s = CalendarEventType
    THEN OrElse(event.projectName, EmptyStr)
    ELSE LET candidates == <<event.taskTypeName, event.projectName,
                             event.locationName, event.taskManagerName>>
             titleParts == SelectSeq(candidates, Truthy)
         IN  Str(JoinParts([i \in 1..Len(titleParts) |-> ToStr(titleParts[i], zone)],
                           " - "))

\* The body of enrichedEvents.map, for an event whose start is not null.
calendarEvent(event, zone) ==
    LET isCalendarEvent == event.taskTypeName.s = CalendarEventType
    IN  [id              |-> Get(event, "ID"),
         title           |-> buildEventTitle(event, zone),
         start           |-> formatDateTimeForCalendar(Get(event, "dateIn"),
                                                       Get(event, "timeIn"), zone),
         end             |-> Undefined,
         allDay          |-> isCalendarEvent \/ ~Truthy(Get(event, "timeIn")),
         backgroundColor |-> event.backgroundColor,
         textColor       |-> event.textColor,
         borderColor     |-> event.backgroundColor,
         classNames      |-> IF isCalendarEvent THEN <<"calendar-event">> ELSE <<>>,
         extendedProps   |->
            [description  |-> OrElse(Get(event, "TaskNotes"), EmptyStr),
             status       |-> OrElse(event.taskStatusHebrew, Word("lo hugdar")),
             project      |-> OrElse(event.projectName, Word("lelo proyekt")),
             user         |-> OrElse(event.projectManagerName, Word("lo shuyach")),
             folderLink   |-> OrElse(event.projectFolder, EmptyStr),
             taskTypeName |-> OrElse(event.taskTypeName, EmptyStr)]]

\* transformEventsForCalendar
transformEventsForCalendar(enrichedEvents, zone) ==
    LET hasStart(event) ==
            formatDateTimeForCalendar(Get(event, "dateIn"), Get(event, "timeIn"), zone) # Null
        kept == SelectSeq(enrichedEvents, hasStart)
    IN  [i \in 1..Len(kept) |-> calendarEvent(kept[i], zone)]

\* Steps 3 and 4 of getCalendarEvents: the events, or the error thrown.
pipeline(ts, sd, zone) ==
    LET enriched == enrichEventsWithSupportingData(ts, sd, zone)
    IN  IF enriched.threw
        THEN [threw |-> TRUE, events |-> <<>>]
        ELSE [threw |-> FALSE, events |-> transformEventsForCalendar(enriched.events, zone)]

---------------------------------------------------------------------------
(* DataAccess.js: sheets to objects to maps *)

RECURSIVE Flatten(_)
\* The characters of a string as one property name.
Flatten(s) == IF s = <<>> THEN "" ELSE Head(s) \o Flatten(Tail(s))

MaxOf(S) == CHOOSE i \in S : \A j \in S : j <= i

\* The object built from one row: a property per non-empty header, holding
\* the cell of the last column with that header.
rowObject(headers, row) ==
    [f \in {headers[i] : i \in 1..Len(headers)} \ {""} |->
        LET index == MaxOf({i \in 1..Len(headers) : headers[i] = f})
        IN  IF index <= Len(row) THEN row[index] ELSE Undefined]

\* valuesToObjects (DataAccess 2.0): headers through toString().trim()
valuesToObjects(values, zone) ==
    IF Len(values) < 2
    THEN <<>>
    ELSE LET headers == [i \in 1..Len(values[1]) |->
                            Flatten(trim(ToStr(values[1][i], zone)))]
         IN  [r \in 1..(Len(values) - 1) |-> rowObject(headers, values[r + 1])]

\* obj.ID && obj.ID.toString().length > 0  (the length is that of the
\* characters, which no time zone changes)
hasId(obj) == Truthy(Get(obj, "ID")) /\ ToStr(Get(obj, "ID"), 0) # <<>>

\* sheetToObjects: any failure (the spreadsheet cannot be opened, header.trim()
\* of a non-string header) is caught and gives []; so does a missing sheet.
sheetToObjects(sheetName, st, up, zone) ==
    IF ~up \/ sheetName \notin DOMAIN st
    THEN <<>>
    ELSE LET values == st[sheetName]
         IN  IF Len(values) < 2
             THEN <<>>
             ELSE IF \E i \in 1..Len(values[1]) : ~IsString(values[1][i])
                  THEN <<>>
                  ELSE LET headers == [i \in 1..Len(values[1]) |->
                                          Flatten(trim(values[1][i].s))]
                           data == [r \in 1..(Len(values) - 1) |->
                                       rowObject(headers, values[r + 1])]
                       IN  SelectSeq(data, hasId)

\* arrayToMap: a property per truthy key, the later item winning; property
\* names are strings, so the key is the key cell converted to a string.
arrayToMap(array, keyField, zone) ==
    LET keyed == {i \in 1..Len(array) : Truthy(Get(array[i], keyField))}
        keyOf(i) == ToStr(Get(array[i], keyField), zone)
    IN  [key \in {keyOf(i) : i \in keyed} |->
            array[MaxOf({i \in keyed : keyOf(i) = key})]]

sheetNames ==
    {"Task", "Project", "Employee", "TaskStatus", "TaskType", "Location", "ProjectStatus"}

EmptyBundle ==
    [taskData |-> <<>>,
     supportingData |->
        [projects |-> <<>>, employees |-> <<>>, taskStatuses |-> <<>>,
         taskTypes |-> <<>>, locations |-> <<>>, projectStatuses |-> <<>>]]

\* Steps 2 and 3 of getAllDataWithCache if a missing sheet were an error
\* landing in the outer catch.
buildAllData_MissingSheetFails(st, zone) ==
    IF ~(sheetNames \subseteq DOMAIN st)
    THEN EmptyBundle
    ELSE LET asMap(name) == arrayToMap(valuesToObjects(st[name], zone), "ID", zone)
         IN  [taskData |-> SelectSeq(valuesToObjects(st["Task"], zone), hasId),
              supportingData |->
                 [projects |-> asMap("Project"), employees |-> asMap("Employee"),
                  taskStatuses |-> asMap("TaskStatus"), taskTypes |-> asMap("TaskType"),
                  locations |-> asMap("Location"),
                  projectStatuses |-> asMap("ProjectStatus")]]

\* Steps 2 and 3 of getAllDataWithCache on an opened spreadsheet: the sheets
\* found among sheetNames, a missing one read as [].
buildAllData(st, zone) ==
    LET sheet(name) == IF name \in DOMAIN st THEN st[name] ELSE <<>>
        asMap(name) == arrayToMap(valuesToObjects(sheet(name), zone), "ID", zone)
    IN  [taskData |-> SelectSeq(valuesToObjects(sheet("Task"), zone), hasId),
         supportingData |->
            [projects |-> asMap("Project"), employees |-> asMap("Employee"),
             taskStatuses |-> asMap("TaskStatus"), taskTypes |-> asMap("TaskType"),
             locations |-> asMap("Location"), projectStatuses |-> asMap("ProjectStatus")]]

\* JSON.parse(JSON.stringify(allData))
JsonBundle(b) ==
    [taskData |-> JsonList(b.taskData),
     supportingData |-> [m \in DOMAIN b.supportingData |-> JsonMap(b.supportingData[m])]]

---------------------------------------------------------------------------
(* The script cache *)

CACHE_EXPIRATION_SECONDS == 3600

ALL_DATA_CACHE_KEY == "ALL_SHEETS_DATA_V2"

\* `map_${sheetName}_v1`
sheetCacheKey(sheetName) == "map_" \o sheetName \o "_v1"

\* CACHE_SERVICE.get(key) returns a value: the entry exists and has not expired.
cacheHit(c, key, time) == key \in DOMAIN c /\ time < c[key].expires

\* CACHE_SERVICE.put with twice the expiration
cachePut_LongLived(c, key, entry, time) ==
    [k \in DOMAIN c \cup {key} |->
        IF k = key
        THEN [expires |-> time + 2 * CACHE_EXPIRATION_SECONDS] @@ entry
        ELSE c[k]]

\* CACHE_SERVICE.put(key, value, CACHE_EXPIRATION_SECONDS).  An entry holds
\* the stored JSON text, written as the value JSON.parse gives for it.
cachePut(c, key, entry, time) ==
    [k \in DOMAIN c \cup {key} |->
        IF k = key
        THEN [expires |-> time + CACHE_EXPIRATION_SECONDS] @@ entry
        ELSE c[k]]

\* The entries left at a later time.
unexpired(c, time) == [k \in {j \in DOMAIN c : time < c[j].expires} |-> c[k]]

---------------------------------------------------------------------------
(* Sample data for the pipeline: the six lookup maps *)

MaxTasks == 2

TimeZones == {0, 2}

\* Status cells of the ProjectStatus sheet, row by row: the seven inactive
\* literals, variants in case and surrounding whitespace, strings that only
\* contain a literal, an active status, an empty cell and a numeric cell.
ProjectStatusCells ==
    << Word("active"), Word("cancelled"), Word("canceled"), Word("tentative"),
       Word("mevutal"), Word("optzionali"), Word("tentativi"), Word("nidcha"),
       Word("Cancelled"), Str(<<WS, "CANCELLED", WS>>), Str(<<"Tentative", WS>>),
       Str(<<"cancelled", WS, "by client">>), Str(<<"not", WS, "tentative">>),
       EmptyStr, Num(7) >>

\* hebrew cells of the TaskStatus sheet.
TaskStatusCells ==
    << Word("in progress"), Word("cancelled"), Word("canceled"), Word("mevutal"),
       Word("nidcha"), Str(<<"Canceled", WS>>), Str(<<WS, "CANCELLED">>),
       Str(<<"cancelled", WS, "partly">>), Word("tentative"), Word("optzionali") >>

Id(prefix, i) == Word(prefix \o ToString(i))
Key(prefix, i) == <<prefix \o ToString(i)>>

SampleProjectStatuses ==
    [key \in {Key("S", i) : i \in 1..Len(ProjectStatusCells)} |->
        LET i == CHOOSE j \in 1..Len(ProjectStatusCells) : Key("S", j) = key
        IN  [ID |-> Id("S", i), Status |-> ProjectStatusCells[i]]]

\* Project Pi has status Si; P0 has no status, location or manager and an
\* empty name.
SampleProjects ==
    [key \in {Key("P", i) : i \in 0..Len(ProjectStatusCells)} |->
        LET i == CHOOSE j \in 0..Len(ProjectStatusCells) : Key("P", j) = key
        IN  IF i = 0
            THEN [ID |-> Id("P", 0), name |-> EmptyStr, folder |-> EmptyStr,
                  ProjectStatus |-> EmptyStr, Location |-> EmptyStr,
                  ProjectManager |-> EmptyStr]
            ELSE [ID |-> Id("P", i), name |-> Word("Expo"),
                  folder |-> Word("https://drive/expo"),
                  ProjectStatus |-> Id("S", i),
                  Location |-> IF i < 12 THEN Word("L1") ELSE Word("L2"),
                  ProjectManager |-> Word("E2")]]

\* TaskStatus TSi has the i-th hebrew cell; TS0 has an empty hebrew cell and
\* falls back to its TaskStatus column.
SampleTaskStatuses ==
    [key \in {Key("TS", i) : i \in 0..Len(TaskStatusCells)} |->
        LET i == CHOOSE j \in 0..Len(TaskStatusCells) : Key("TS", j) = key
        IN  IF i = 0
            THEN [ID |-> Id("TS", 0), hebrew |-> EmptyStr, TaskStatus |-> Word("Cancelled")]
            ELSE [ID |-> Id("TS", i), hebrew |-> TaskStatusCells[i],
                  TaskStatus |-> Word("open")]]

SampleTaskTypes ==
    [key \in {<<"T1">>, <<"T2">>, <<"T3">>} |->
        CASE key = <<"T1">> -> [ID |-> Word("T1"), hebrew |-> Word("Setup"),
                                color |-> Word("Blue")]
          [] key = <<"T2">> -> [ID |-> Word("T2"), hebrew |-> Word("erua luach shana"),
                                color |-> Str(<<WS, "RED">>)]
          [] key = <<"T3">> -> [ID |-> Word("T3"), hebrew |-> EmptyStr,
                                color |-> Word("teal")]]

\* L2's name cell holds a date (a name such as "1/3" typed into the sheet).
SampleLocations ==
    [key \in {<<"L1">>, <<"L2">>} |->
        IF key = <<"L1">>
        THEN [ID |-> Word("L1"), name |-> Word("Hall A")]
        ELSE [ID |-> Word("L2"), name |-> DateV(46)]]

SampleEmployees ==
    [key \in {<<"E1">>, <<"E2">>} |->
        IF key = <<"E1">>
        THEN [ID |-> Word("E1"), fName |-> Word("Dana"), sName |-> Word("Levi")]
        ELSE [ID |-> Word("E2"), fName |-> Word("Noa"), sName |-> EmptyStr]]

SampleSupporting ==
    [projects |-> SampleProjects, employees |-> SampleEmployees,
     taskStatuses |-> SampleTaskStatuses, taskTypes |-> SampleTaskTypes,
     locations |-> SampleLocations, projectStatuses |-> SampleProjectStatuses]

\* The same six maps as a cache hit delivers them.
JsonSupporting(sd) == [m \in DOMAIN sd |-> JsonMap(sd[m])]

SupportingChoices == {SampleSupporting, JsonSupporting(SampleSupporting)}

\* A row of the Task sheet that passes validation, is active and has a start.
BaseTask ==
    [ID |-> Word("t"), dateIn |-> DateV(22), dateOut |-> EmptyStr, timeIn |-> EmptyStr,
     Project |-> Word("P1"), TaskType |-> Word("T1"), TaskStatus |-> Word("TS1"),
     TaskManager |-> Word("E1"), TaskNotes |-> Word("bring ladders"), Task |-> EmptyStr]

\* task with some columns set; a column set to undefined is a column the sheet lacks.
With(task, fields) ==
    [f \in {g \in DOMAIN task : g \notin DOMAIN fields \/ fields[g].k # "undefined"} |->
        IF f \in DOMAIN fields THEN fields[f] ELSE task[f]]

TaskLists(domain) == UNION {[1..n -> domain] : n \in 0..MaxTasks}

---------------------------------------------------------------------------
(* The spreadsheet *)

Headers(names) == [i \in 1..Len(names) |-> Word(names[i])]

\* The Task sheet: a header with trailing whitespace, a column without a
\* header, one task whose dateIn cell is a date, and a blank row.
TaskSheet(dateIn, project) ==
    << <<Word("ID"), Str(<<"dateIn", WS>>), Word("timeIn"), Word("Project"),
         Word("TaskType"), Word("TaskStatus"), Word("TaskManager"), EmptyStr>>,
       <<Num(1), dateIn, EmptyStr, project, Word("T1"), Word("TS1"), Word("E1"),
         Word("scratch")>>,
       <<EmptyStr, EmptyStr, EmptyStr, EmptyStr, EmptyStr, EmptyStr, EmptyStr, EmptyStr>> >>

ProjectSheet ==
    << Headers(<<"ID", "name", "Location", "ProjectStatus", "ProjectManager">>),
       <<Word("P1"), Word("Expo"), Word("L1"), Word("S1"), Word("E2")>>,
       <<Word("P2"), Word("Gala"), Word("L1"), Word("S1"), Word("E1")>> >>

EmployeeSheet ==
    << Headers(<<"ID", "fName", "sName">>),
       <<Word("E1"), Word("Dana"), Word("Levi")>>,
       <<Word("E2"), Word("Noa"), EmptyStr>> >>

TaskStatusSheet == << Headers(<<"ID", "hebrew">>), <<Word("TS1"), Word("in progress")>> >>

TaskTypeSheet ==
    << Headers(<<"ID", "hebrew", "color">>), <<Word("T1"), Word("Setup"), Word("Blue")>> >>

LocationSheet(name) == << Headers(<<"ID", "name">>), <<Word("L1"), name>> >>

ProjectStatusSheet == << Headers(<<"ID", "Status">>), <<Word("S1"), Word("active")>> >>

Sheets(dateIn, project, locationName) ==
    [name \in sheetNames |->
        CASE name = "Task"          -> TaskSheet(dateIn, project)
          [] name = "Project"       -> ProjectSheet
          [] name = "Employee"      -> EmployeeSheet
          [] name = "TaskStatus"    -> TaskStatusSheet
          [] name = "TaskType"      -> TaskTypeSheet
          [] name = "Location"      -> LocationSheet(locationName)
          [] name = "ProjectStatus" -> ProjectStatusSheet]

\* Two contents of the spreadsheet.  In the second the task has moved to
\* another day and project, and the location's name cell holds a date.
SheetsA == Sheets(DateV(22), Word("P1"), Word("Hall A"))
SheetsB == Sheets(DateV(46), Word("P2"), DateV(70))

\* st with some sheets deleted
WithoutSheets(st, gone) == [name \in DOMAIN st \ gone |-> st[name]]

StoreStates == {SheetsA, SheetsB, WithoutSheets(SheetsA, {"Task"})}

---------------------------------------------------------------------------
(* Code.js: authorization *)

AUTHORIZED_DOMAIN == "stage-design.co.il"

\* What Session.getActiveUser().getEmail() does for a caller: throws, or
\* yields an email ('' when there is no signed-in user).
Threw == [throws |-> TRUE]
Email(s) == [throws |-> FALSE, email |-> Str(s)]

Callers ==
    { Threw,
      Email(<<>>),
      Email(<<"dana", "@", "stage-design.co.il">>),
      Email(<<"User", "@", "Stage-Design.co.il">>),
      Email(<<"eve", "@", "evil.com">>),
      Email(<<"eve", "@", "not", "stage-design.co.il">>),
      Email(<<"eve", "@", "stage-design.co.il", ".evil.com">>) }

\* isCurrentUserAuthorized with the domain suffix compared without the '@'
isCurrentUserAuthorized_NoAt(caller) ==
    IF caller.throws
    THEN FALSE
    ELSE /\ Truthy(caller.email)
         /\ endsWith(toLowerCase(caller.email.s), <<AUTHORIZED_DOMAIN>>)

\* isCurrentUserAuthorized
isCurrentUserAuthorized(caller) ==
    IF caller.throws
    THEN FALSE
    ELSE /\ Truthy(caller.email)
         /\ endsWith(toLowerCase(caller.email.s), <<"@", AUTHORIZED_DOMAIN>>)

---------------------------------------------------------------------------
(* The service: requests, data-access calls, the clock, the spreadsheet *)

Procs == {"p1", "p2"}

NoResult == [done |-> FALSE, threw |-> FALSE, events |-> <<>>]
NoRequest == [done |-> FALSE]
NoCall == [done |-> FALSE]

\* The sheets getCalendarEvents fetches with useCache = true.
cachedSheets == {"TaskStatus", "TaskType", "Location", "ProjectStatus"}

\* Which of the puts of one request fail (the value is too large).
PutFailureChoices == {{}, {"Location"}, cachedSheets}

\* getSheetAsMapWithCache(sheetName, 'ID', useCache): the map returned.
getSheetAsMapWithCache(sheetName, useCache, c, st, up, time, zone) ==
    IF useCache /\ cacheHit(c, sheetCacheKey(sheetName), time)
    THEN c[sheetCacheKey(sheetName)].value
    ELSE arrayToMap(sheetToObjects(sheetName, st, up, zone), "ID", zone)

\* The cache after the puts of one getCalendarEvents call: every cached sheet
\* that missed is stored, unless its put throws (caught and logged).
cacheAfterRequest(c, st, up, time, zone, failing) ==
    LET missed == {n \in cachedSheets : ~cacheHit(c, sheetCacheKey(n), time)}
        stored == {sheetCacheKey(n) : n \in missed \ failing}
        sheetOf(k) == CHOOSE n \in cachedSheets : sheetCacheKey(n) = k
    IN  [k \in DOMAIN c \cup stored |->
            IF k \in stored
            THEN [expires |-> time + CACHE_EXPIRATION_SECONDS,
                  value |-> JsonMap(arrayToMap(sheetToObjects(sheetOf(k), st, up, zone),
                                               "ID", zone))]
            ELSE c[k]]

\* getCalendarEvents past the authorization check: the events, or the error
\* re-thrown.
calendarEventsOf(c, st, up, time, zone) ==
    LET taskData == sheetToObjects("Task", st, up, zone)
        supportingData ==
            [projects        |-> getSheetAsMapWithCache("Project", FALSE, c, st, up, time, zone),
             employees       |-> getSheetAsMapWithCache("Employee", FALSE, c, st, up, time, zone),
             taskStatuses    |-> getSheetAsMapWithCache("TaskStatus", TRUE, c, st, up, time, zone),
             taskTypes       |-> getSheetAsMapWithCache("TaskType", TRUE, c, st, up, time, zone),
             locations       |-> getSheetAsMapWithCache("Location", TRUE, c, st, up, time, zone),
             projectStatuses |-> getSheetAsMapWithCache("ProjectStatus", TRUE, c, st, up, time, zone)]
    IN  pipeline(taskData, supportingData, zone)

\* getCalendarEvents, one whole call.  The caller and the puts that fail are
\* the inputs; the call ends with the UNAUTHORIZED error, with the pipeline's
\* error re-thrown, or with the events returned.  The record kept of it says
\* what came back and what the call touched (openById calls, cache keys read
\* and written) and found (the spreadsheet, the cache).  `keep` says whether
\* the record of the call before is kept.
GetCalendarEvents(keep) ==
    LET missed == {n \in cachedSheets : ~cacheHit(cache, sheetCacheKey(n), now)}
        out == calendarEventsOf(cache, store, reachable, now, tz)
        cold == unexpired(cache, now) = <<>>
        fresh == cacheHit(cache, ALL_DATA_CACHE_KEY, now)
    IN  \E caller \in Callers, failing \in PutFailureChoices :
            /\ failing \subseteq missed
            /\ IF isCurrentUserAuthorized(caller)
               THEN /\ req' = [done |-> TRUE, caller |-> caller,
                               outcome |-> IF out.threw THEN "error" ELSE "ok",
                               events |-> out.events,
                               opens |-> 3 + Cardinality(missed),
                               gets |-> {sheetCacheKey(n) : n \in cachedSheets},
                               puts |-> {sheetCacheKey(n) : n \in missed},
                               putFailed |-> failing,
                               cold |-> cold, snapshotFresh |-> fresh,
                               sawStore |-> store, sawUp |-> reachable]
                    /\ cache' = cacheAfterRequest(cache, store, reachable, now, tz, failing)
               ELSE /\ failing = {}
                    /\ req' = [done |-> TRUE, caller |-> caller,
                               outcome |-> "UNAUTHORIZED", events |-> <<>>,
                               opens |-> 0, gets |-> {}, puts |-> {}, putFailed |-> {},
                               cold |-> cold, snapshotFresh |-> fresh,
                               sawStore |-> store, sawUp |-> reachable]
                    /\ cache' = cache
            /\ prev' = IF keep THEN req ELSE NoRequest
            /\ UNCHANGED <<tz, tasks, supporting, pipeOut, now, store, reachable, proc, call>>

\* What getAllDataWithCache returns after its put, failed or not, without the
\* try/catch around the put.
afterPut_Uncaught(allData, putOk) ==
    IF putOk THEN [threw |-> FALSE, ret |-> allData]
    ELSE [threw |-> TRUE, ret |-> EmptyBundle]

\* What getAllDataWithCache returns after its put, failed or not.
afterPut(allData, putOk) == [threw |-> FALSE, ret |-> allData]

\* getAllDataWithCache, step 1: CACHE_SERVICE.get; a hit returns the parsed text.
CallGetAllData(p) ==
    /\ proc[p].pc = "idle"
    /\ IF cacheHit(cache, ALL_DATA_CACHE_KEY, now)
       THEN /\ call' = [done |-> TRUE, hit |-> TRUE, threw |-> FALSE,
                        ret |-> cache[ALL_DATA_CACHE_KEY].value, opens |-> 0,
                        readAt |-> cache[ALL_DATA_CACHE_KEY].readAt,
                        putAt |-> cache[ALL_DATA_CACHE_KEY].putAt,
                        first |-> cache[ALL_DATA_CACHE_KEY].returned,
                        at |-> now]
            /\ proc' = proc
       ELSE /\ proc' = [proc EXCEPT ![p] = [pc |-> "fetch"]]
            /\ call' = call
    /\ UNCHANGED <<tz, tasks, supporting, pipeOut, now, store, reachable, cache, req, prev>>

\* getAllDataWithCache, steps 2 and 3: open the spreadsheet and read the
\* sheets; a failure to open lands in the catch, which returns the empty
\* structure.
FetchAllData(p) ==
    /\ proc[p].pc = "fetch"
    /\ IF reachable
       THEN /\ proc' = [proc EXCEPT ![p] =
                    [pc |-> "put", allData |-> buildAllData(store, tz), readAt |-> now,
                     sawStore |-> store]]
            /\ call' = call
       ELSE /\ proc' = [proc EXCEPT ![p] = [pc |-> "idle"]]
            /\ call' = [done |-> TRUE, hit |-> FALSE, threw |-> FALSE, ret |-> EmptyBundle,
                        opens |-> 1, opened |-> FALSE, putOk |-> FALSE, readAt |-> now,
                        sawStore |-> store, cacheLeft |-> TRUE, at |-> now]
    /\ UNCHANGED <<tz, tasks, supporting, pipeOut, now, store, reachable, cache, req, prev>>

\* getAllDataWithCache, step 4: CACHE_SERVICE.put, which may throw, and the return.
PutAllData(p, putOk) ==
    /\ proc[p].pc = "put"
    /\ cache' = IF putOk
                THEN cachePut(cache, ALL_DATA_CACHE_KEY,
                              [value |-> JsonBundle(proc[p].allData),
                               readAt |-> proc[p].readAt, putAt |-> now,
                               returned |-> proc[p].allData], now)
                ELSE cache
    /\ call' = [done |-> TRUE, hit |-> FALSE, opens |-> 1, opened |-> TRUE,
                putOk |-> putOk, readAt |-> proc[p].readAt,
                sawStore |-> proc[p].sawStore, cacheLeft |-> (cache' = cache), at |-> now]
               @@ afterPut(proc[p].allData, putOk)
    /\ proc' = [proc EXCEPT ![p] = [pc |-> "idle"]]
    /\ UNCHANGED <<tz, tasks, supporting, pipeOut, now, store, reachable, req, prev>>

\* Time passes; entries that have expired are gone.  `call` describes a call
\* that returned at the present instant, so it is cleared.
Tick(step, limit) ==
    /\ now + step <= limit
    /\ now' = now + step
    /\ cache' = unexpired(cache, now')
    /\ call' = NoCall
    /\ UNCHANGED <<tz, tasks, supporting, pipeOut, store, reachable, proc, req, prev>>

\* Somebody edits the spreadsheet, or deletes or restores a sheet.
EditStore(states) ==
    /\ store' \in states \ {store}
    /\ UNCHANGED <<tz, tasks, supporting, pipeOut, now, reachable, cache, proc, call, req, prev>>

\* The spreadsheet service goes down, or comes back.
ToggleReachable ==
    /\ reachable' = ~reachable
    /\ UNCHANGED <<tz, tasks, supporting, pipeOut, now, store, cache, proc, call, req, prev>>

\* The service side at rest: the script's globals set up, nothing cached,
\* no call made.
ServiceAtRest ==
    /\ now = 0
    /\ store = SheetsA
    /\ reachable = TRUE
    /\ cache = <<>>
    /\ proc = [p \in Procs |-> [pc |-> "idle"]]
    /\ call = NoCall
    /\ req = NoRequest
    /\ prev = NoRequest

serviceVars == <<now, store, reachable, cache, proc, call, req, prev>>

ServiceInit ==
    /\ tz = 2
    /\ tasks = <<>>
    /\ supporting = EmptyBundle.supportingData
    /\ pipeOut = NoResult
    /\ ServiceAtRest

\* The clock moves by half a TTL.
HalfTTL == CACHE_EXPIRATION_SECONDS \div 2

\* Requests next to one data-access caller.
MaxRequestTicks == 1

Init == ServiceInit

Next ==
    \/ GetCalendarEvents(FALSE)
    \/ CallGetAllData("p1")
    \/ FetchAllData("p1")
    \/ \E putOk \in BOOLEAN : PutAllData("p1", putOk)
    \/ Tick(HalfTTL, MaxRequestTicks * HalfTTL)
    \/ EditStore({SheetsA, SheetsB})

Spec == Init /\ [][Next]_vars

\* Concurrent data-access calls.
MaxCacheTicks == 3

CacheNext ==
    \/ \E p \in Procs : CallGetAllData(p)
    \/ \E p \in Procs : FetchAllData(p)
    \/ \E p \in Procs, putOk \in BOOLEAN : PutAllData(p, putOk)
    \/ Tick(HalfTTL, MaxCacheTicks * HalfTTL)
    \/ EditStore(StoreStates)
    \/ ToggleReachable

SpecCache == Init /\ [][CacheNext]_vars

\* The request made twice (or more) over one spreadsheet that nobody edits,
\* from a cold cache.
MaxTwiceTicks == 1

TwiceInit ==
    /\ tz = 2
    /\ tasks = <<>>
    /\ supporting = EmptyBundle.supportingData
    /\ pipeOut = NoResult
    /\ now = 0
    /\ store \in StoreStates
    /\ reachable \in BOOLEAN
    /\ cache = <<>>
    /\ proc = [p \in Procs |-> [pc |-> "idle"]]
    /\ call = NoCall
    /\ req = NoRequest
    /\ prev = NoRequest

TwiceNext ==
    \/ GetCalendarEvents(TRUE)
    \/ Tick(CACHE_EXPIRATION_SECONDS, MaxTwiceTicks * CACHE_EXPIRATION_SECONDS)

SpecTwice == TwiceInit /\ [][TwiceNext]_vars

---------------------------------------------------------------------------
(* The pipeline on its own: inputs drawn in Init, one run *)

PipeInit(domain) ==
    /\ tz \in TimeZones
    /\ tasks \in TaskLists(domain)
    /\ supporting \in SupportingChoices
    /\ pipeOut = NoResult
    /\ ServiceAtRest

\* transformEventsForCalendar(enrichEventsWithSupportingData(tasks, supportingData))
RunPipeline ==
    /\ ~pipeOut.done
    /\ pipeOut' = [done |-> TRUE] @@ pipeline(tasks, supporting, tz)
    /\ UNCHANGED <<tz, tasks, supporting>>
    /\ UNCHANGED serviceVars

PipeNext == RunPipeline

\* Tasks that differ in the columns validateEvent reads.
DateInCells  == <<Undefined, EmptyStr, DateV(22), Word("2024-03-02"), Word("next week")>>
DateOutCells == <<EmptyStr, DateV(0), DateV(70), Word("tbd")>>
ProjectCells == <<EmptyStr, Word("P1")>>

ValidationTasks ==
    { With(BaseTask,
           [ID |-> Word("d" \o ToString(i) \o "o" \o ToString(j) \o "p" \o ToString(k)),
            dateIn |-> DateInCells[i], dateOut |-> DateOutCells[j],
            Project |-> ProjectCells[k]]) :
        <<i, j, k>> \in (1..Len(DateInCells)) \X (1..Len(DateOutCells)) \X (1..Len(ProjectCells)) }

SpecValidate == PipeInit(ValidationTasks) /\ [][PipeNext]_vars

---------------------------------------------------------------------------
(* C3 *)

\* The claim's own reading of "fails validation".
C3_Absent(v) == v = Undefined \/ v = EmptyStr
C3_FailsValidation(task) ==
    LET dateIn  == Get(task, "dateIn")
        dateOut == Get(task, "dateOut")
    IN  \/ C3_Absent(dateIn) \/ IsInvalidDate(dateIn)
        \/ /\ ~C3_Absent(dateOut)
           /\ \/ IsInvalidDate(dateOut)
              \/ TimeOf(dateOut) < TimeOf(dateIn)
        \/ C3_Absent(Get(task, "Project"))
C3_PassesValidation(task) == ~C3_FailsValidation(task)

\* C3: once the pipeline has run, no event carries the ID of a task that
\* fails validation, and the result is the one the pipeline gives on the
\* list with the failing tasks removed (their exclusion stops nothing).
C3_InvalidTasksNeverAppear ==
    pipeOut.done =>
        /\ \A i \in 1..Len(tasks) :
              C3_FailsValidation(tasks[i]) =>
                  \A j \in 1..Len(pipeOut.events) : pipeOut.events[j].id # tasks[i].ID
        /\ pipeOut.threw = pipeline(SelectSeq(tasks, C3_PassesValidation), supporting, tz).threw
        /\ pipeOut.events = pipeline(SelectSeq(tasks, C3_PassesValidation), supporting, tz).events

\* A failing task (end before start) ahead of a valid one: one event, the valid task's.
C3_Witness ==
    /\ pipeOut.done /\ ~pipeOut.threw
    /\ Len(tasks) = 2
    /\ Get(tasks[1], "dateIn") = DateV(22) /\ Get(tasks[1], "dateOut") = DateV(0)
    /\ Truthy(Get(tasks[1], "Project"))
    /\ ~C3_FailsValidation(tasks[2])
    /\ Len(pipeOut.events) = 1
    /\ pipeOut.events[1].id = tasks[2].ID

---------------------------------------------------------------------------
(* C4 *)

\* Tasks that differ in the project (hence the project status) or in the
\* task status they refer to; the last one fails validation.
FilterTasks ==
    { With(BaseTask, [ID |-> Id("p", i), Project |-> Id("P", i)]) :
        i \in 0..Len(ProjectStatusCells) }
    \cup
    { With(BaseTask, [ID |-> Id("s", i), TaskStatus |-> Id("TS", i)]) :
        i \in 0..Len(TaskStatusCells) }
    \cup
    { With(BaseTask, [ID |-> Word("nix"), Project |-> Word("PX"), TaskStatus |-> Word("TSX")]),
      With(BaseTask, [ID |-> Word("bad"), Project |-> Word("P2"), dateIn |-> EmptyStr]) }

SpecFilter == PipeInit(FilterTasks) /\ [][PipeNext]_vars

\* The literals as the claim lists them.
C4_InactiveProjectLiterals ==
    {<<"cancelled">>, <<"canceled">>, <<"tentative">>,
     <<"mevutal">>, <<"optzionali">>, <<"tentativi">>, <<"nidcha">>}
C4_InactiveTaskLiterals ==
    {<<"cancelled">>, <<"canceled">>, <<"mevutal">>, <<"nidcha">>}

C4_ClaimedDropped(task) ==
    \/ toLowerCase(trim(projectStatusRaw(task, supporting, tz).s)) \in C4_InactiveProjectLiterals
    \/ toLowerCase(trim(taskStatusRaw(task, supporting, tz).s)) \in C4_InactiveTaskLiterals

C4_Survives(task) == isValidTask(task) /\ ~C4_ClaimedDropped(task)

\* C4: when the pipeline completes, the events are, in order, those of the
\* valid tasks whose trimmed lower-cased project status and task status are
\* not among the literals: a valid task is dropped iff one of them is.
C4_DroppedIffInactiveLiteral ==
    (pipeOut.done /\ ~pipeOut.threw) =>
        LET survivors == SelectSeq(tasks, C4_Survives)
        IN  /\ Len(pipeOut.events) = Len(survivors)
            /\ \A i \in 1..Len(survivors) : pipeOut.events[i].id = survivors[i].ID

\* " CANCELLED " (case and whitespace) is dropped, "cancelled by client"
\* (a literal as a substring) is kept.
C4_Witness ==
    /\ pipeOut.done /\ ~pipeOut.threw
    /\ Len(tasks) = 2
    /\ projectStatusRaw(tasks[1], supporting, tz) = Str(<<WS, "CANCELLED", WS>>)
    /\ projectStatusRaw(tasks[2], supporting, tz) = Str(<<"cancelled", WS, "by client">>)
    /\ Len(pipeOut.events) = 1
    /\ pipeOut.events[1].id = tasks[2].ID

---------------------------------------------------------------------------
(* C10 *)

TypeCells    == <<[TaskType |-> Word("T2"), Task |-> EmptyStr],
                  [TaskType |-> Word("T1"), Task |-> EmptyStr],
                  [TaskType |-> EmptyStr, Task |-> Str(<<WS, "Erua Luach Shana">>)]>>
TitleProjectCells == <<EmptyStr, Undefined, Word("PX"), Word("P0"), Word("P1")>>
TimeInCells  == <<EmptyStr, DateV(9), Word("soon")>>

TitleTasks ==
    { With(BaseTask,
           [ID |-> Word("y" \o ToString(i) \o "p" \o ToString(j) \o "h" \o ToString(k)),
            TaskType |-> TypeCells[i].TaskType, Task |-> TypeCells[i].Task,
            Project |-> TitleProjectCells[j], timeIn |-> TimeInCells[k]]) :
        <<i, j, k>> \in (1..Len(TypeCells)) \X (1..Len(TitleProjectCells)) \X (1..Len(TimeInCells)) }

SpecTitle == PipeInit(TitleTasks) /\ [][PipeNext]_vars

C10_IsCalendarEventType(task) ==
    /\ IsString(taskTypeNameRaw(task, supporting, tz))
    /\ toLowerCase(trim(taskTypeNameRaw(task, supporting, tz).s)) = <<"erua luach shana">>

C10_ValidDateIn(task) ==
    Truthy(Get(task, "dateIn")) /\ ~IsInvalidDate(Get(task, "dateIn"))

C10_HasEmptyTitledEvent(task) ==
    \E j \in 1..Len(pipeOut.events) :
        pipeOut.events[j].id = task.ID /\ pipeOut.events[j].title = EmptyStr

\* C10 as stated: a calendar-event-type task with no assigned project and a
\* valid dateIn comes out of the pipeline as an event titled "".
C10_NoProjectYieldsEmptyTitle ==
    pipeOut.done =>
        \A i \in 1..Len(tasks) :
            ( /\ C10_IsCalendarEventType(tasks[i])
              /\ ~Truthy(Get(tasks[i], "Project"))
              /\ C10_ValidDateIn(tasks[i]) )
            => (~pipeOut.threw /\ C10_HasEmptyTitledEvent(tasks[i]))

\* C10 amended: with a Project cell that is set but resolves to no project
\* name, a valid, active calendar-event-type task gives an event titled "";
\* with an empty Project cell the task gives no event.
C10_UnresolvedProjectYieldsEmptyTitle ==
    (pipeOut.done /\ ~pipeOut.threw) =>
        \A i \in 1..Len(tasks) :
            (C10_IsCalendarEventType(tasks[i]) /\ C10_ValidDateIn(tasks[i])) =>
                /\ ( /\ Truthy(Get(tasks[i], "Project"))
                     /\ ~Truthy(Get(projectDataOf(tasks[i], supporting, tz), "name"))
                     /\ isValidTask(tasks[i])
                     /\ ~C4_ClaimedDropped(tasks[i]) )
                   => C10_HasEmptyTitledEvent(tasks[i])
                /\ ~Truthy(Get(tasks[i], "Project"))
                   => \A j \in 1..Len(pipeOut.events) : pipeOut.events[j].id # tasks[i].ID

\* A calendar-event-type task pointing at a project that does not exist,
\* next to one with an empty Project cell: one event, titled "".
C10_Witness ==
    /\ pipeOut.done /\ ~pipeOut.threw
    /\ Len(tasks) = 2
    /\ C10_IsCalendarEventType(tasks[1]) /\ Get(tasks[1], "Project") = Word("PX")
    /\ C10_IsCalendarEventType(tasks[2]) /\ Get(tasks[2], "Project") = EmptyStr
    /\ Len(pipeOut.events) = 1
    /\ pipeOut.events[1].id = tasks[1].ID
    /\ pipeOut.events[1].title = EmptyStr

---------------------------------------------------------------------------
(* C8 *)

\* The callers the authorization check is to turn away: the identity lookup
\* throws, there is no signed-in user, or the lower-cased email does not end
\* with '@' followed by the allowed domain.
C8_TurnedAway(caller) ==
    \/ caller.throws
    \/ caller.email.s = <<>>
    \/ LET lowered == toLowerCase(caller.email.s)
           n == Len(lowered)
       IN  ~(n >= 2 /\ lowered[n - 1] = "@" /\ lowered[n] = AUTHORIZED_DOMAIN)

\* C8: a getCalendarEvents call by a caller who is unauthenticated, whose
\* identity lookup throws, or whose lower-cased email does not end with '@'
\* plus the allowed domain ends with the UNAUTHORIZED error, not with events,
\* and has opened no spreadsheet and read or written no cache key.
C8_UnauthorizedTouchesNothing ==
    (req.done /\ C8_TurnedAway(req.caller)) =>
        /\ req.outcome = "UNAUTHORIZED"
        /\ req.opens = 0
        /\ req.gets = {}
        /\ req.puts = {}

C8_Witness ==
    /\ req.done
    /\ req.caller = Email(<<"eve", "@", "not", "stage-design.co.il">>)
    /\ req.outcome = "UNAUTHORIZED"
    /\ req.opens = 0

---------------------------------------------------------------------------
(* C1 *)

\* C1: a getAllDataWithCache call served from the cache returns the very
\* bundle that the call which filled the cache returned, and opens no
\* spreadsheet.
C1_HitReturnsWhatMissReturned ==
    (call.done /\ call.hit) =>
        /\ call.ret = call.first
        /\ call.opens = 0

---------------------------------------------------------------------------
(* C2 *)

\* C2: the cache holds no entry but the dataset-wide one, and an authorized
\* getCalendarEvents request made while that entry is unexpired reads and
\* writes no other key and opens no spreadsheet.
C2_OnlyDatasetWideEntry ==
    /\ DOMAIN cache \subseteq {ALL_DATA_CACHE_KEY}
    /\ (req.done /\ req.outcome # "UNAUTHORIZED") =>
            /\ req.gets \subseteq {ALL_DATA_CACHE_KEY}
            /\ req.puts \subseteq {ALL_DATA_CACHE_KEY}
            /\ req.snapshotFresh => req.opens = 0

---------------------------------------------------------------------------
(* C5 *)

\* C5: of two successive getCalendarEvents requests by one authorized caller
\* over a spreadsheet that is reachable and not edited, the first from a cold
\* cache, the second ends as the first did, with the same events in the same
\* order.
C5_SecondRunSameEvents ==
    (/\ prev.done /\ req.done
     /\ prev.outcome # "UNAUTHORIZED" /\ req.caller = prev.caller
     /\ prev.cold /\ prev.sawUp /\ req.sawUp /\ req.sawStore = prev.sawStore) =>
        /\ req.outcome = prev.outcome
        /\ req.events = prev.events

---------------------------------------------------------------------------
(* C6 *)

\* The events of a request that finds nothing in the cache.
C6_EventsFromStore(st, up) == calendarEventsOf(<<>>, st, up, 0, tz).events

---------------------------------------------------------------------------
(* C7 *)

\* The part of a bundle that comes from one sheet.
C7_Part(bundle, name) ==
    CASE name = "Task"          -> bundle.taskData
      [] name = "Project"       -> bundle.supportingData.projects
      [] name = "Employee"      -> bundle.supportingData.employees
      [] name = "TaskStatus"    -> bundle.supportingData.taskStatuses
      [] name = "TaskType"      -> bundle.supportingData.taskTypes
      [] name = "Location"      -> bundle.supportingData.locations
      [] name = "ProjectStatus" -> bundle.supportingData.projectStatuses

\* A call that missed the cache and whose read of the spreadsheet failed.
C7_ReadFailed ==
    /\ call.done /\ ~call.hit
    /\ ~call.opened \/ ~(sheetNames \subseteq DOMAIN call.sawStore)

---------------------------------------------------------------------------
(* C9 *)

\* C9 as stated: a bundle served from the cache was read from the spreadsheet
\* no more than one TTL before the call returns.
C9_ServedWithinOneTTLOfRead ==
    (call.done /\ call.hit) => call.at - call.readAt <= CACHE_EXPIRATION_SECONDS

\* C9: a bundle served from the cache was put less than one TTL before the
\* call returns, so it was read from the spreadsheet less than one TTL plus
\* the time its writer took between read and put before; a call that misses
\* returns what it read itself during the call.
C9_ServedWithinOneTTLOfPut ==
    /\ (call.done /\ call.hit) =>
            /\ call.readAt <= call.putAt
            /\ call.at - call.putAt < CACHE_EXPIRATION_SECONDS
    /\ (call.done /\ ~call.hit) => call.readAt <= call.at

C9_Witness ==
    /\ call.done /\ call.hit
    /\ call.readAt < call.putAt
    /\ call.at - call.readAt > CACHE_EXPIRATION_SECONDS

---------------------------------------------------------------------------
(* C11 *)

MaxProjects == 2

\* ID cells of the Project sheet: a plain ID, the same ID with leading and
\* with trailing whitespace, and a numeric ID.
ProjectIdCells == <<Word("P1"), Str(<<WS, "P1">>), Str(<<"P1", WS>>), Num(7)>>
ProjectNameCells == <<Word("Expo"), Word("Gala")>>

\* The data rows of a Project sheet with the columns ID and name.
ProjectRows ==
    LET row == {<<ProjectIdCells[i], ProjectNameCells[j]>> :
                    i \in 1..Len(ProjectIdCells), j \in 1..Len(ProjectNameCells)}
    IN  UNION {[1..n -> row] : n \in 0..MaxProjects}

\* The spreadsheet with these rows in its Project sheet.
JoinStore(rows) ==
    [SheetsA EXCEPT !["Project"] = <<Headers(<<"ID", "name">>)>> \o rows]

\* Tasks whose Project cell is one of the ID cells, or empty.
JoinTasks ==
    LET cells == ProjectIdCells \o <<EmptyStr>>
    IN  {With(BaseTask, [ID |-> Word("j" \o ToString(i)), Project |-> cells[i]]) :
            i \in 1..Len(cells)}

\* The supportingData getCalendarEvents assembles from the spreadsheet, with
\* nothing cached.
supportingDataOf(st, zone) ==
    [projects        |-> getSheetAsMapWithCache("Project", FALSE, <<>>, st, TRUE, 0, zone),
     employees       |-> getSheetAsMapWithCache("Employee", FALSE, <<>>, st, TRUE, 0, zone),
     taskStatuses    |-> getSheetAsMapWithCache("TaskStatus", TRUE, <<>>, st, TRUE, 0, zone),
     taskTypes       |-> getSheetAsMapWithCache("TaskType", TRUE, <<>>, st, TRUE, 0, zone),
     locations       |-> getSheetAsMapWithCache("Location", TRUE, <<>>, st, TRUE, 0, zone),
     projectStatuses |-> getSheetAsMapWithCache("ProjectStatus", TRUE, <<>>, st, TRUE, 0, zone)]

JoinInit ==
    /\ tz \in TimeZones
    /\ tasks \in TaskLists(JoinTasks)
    /\ store \in {JoinStore(rows) : rows \in ProjectRows}
    /\ supporting = supportingDataOf(store, tz)
    /\ pipeOut = NoResult
    /\ now = 0
    /\ reachable = TRUE
    /\ cache = <<>>
    /\ proc = [p \in Procs |-> [pc |-> "idle"]]
    /\ call = NoCall
    /\ req = NoRequest
    /\ prev = NoRequest

SpecJoin == JoinInit /\ [][PipeNext]_vars

\* The data rows of the Project sheet whose ID cell equals the task's
\* Project cell.
C11_Matches(task) ==
    LET rows == Tail(store["Project"])
    IN  {r \in 1..Len(rows) : rows[r][1] = Get(task, "Project")}

\* The name cell of the last of them.
C11_LastMatchName(task) ==
    Tail(store["Project"])[MaxOf(C11_Matches(task))][2]

\* C11: once the pipeline has run, every valid task whose Project cell equals
\* the ID cell of some Project row has an event carrying the name of the last
\* such row as its project, whatever the ID, leading or trailing whitespace
\* included.
C11_MatchingIdResolves ==
    (pipeOut.done /\ ~pipeOut.threw) =>
        \A i \in 1..Len(tasks) :
            (validateEvent(tasks[i]) = <<>> /\ C11_Matches(tasks[i]) # {}) =>
                \E e \in 1..Len(pipeOut.events) :
                    /\ pipeOut.events[e].id = tasks[i].ID
                    /\ pipeOut.events[e].extendedProps.project = C11_LastMatchName(tasks[i])

---------------------------------------------------------------------------
(* C12 *)

\* C12: once the pipeline has run, every event whose start is a date without
\* a time of day is an all-day event.
C12_DateOnlyStartIsAllDay ==
    (pipeOut.done /\ ~pipeOut.threw) =>
        \A e \in 1..Len(pipeOut.events) :
            pipeOut.events[e].start.s[1] \in DateOnlyStrings => pipeOut.events[e].allDay

=============================================================================
